---- MODULE Spec2Model ----
(***************************************************************************)
(* Model of mysql-scan: the MySQL protocol-10 handshake decoder            *)
(* (MySQLv10.Decode, read_cstr) and the transport probe (DetectMySQL).     *)
(*                                                                         *)
(* Byte slices are sequences of integers 0..255.  Go offsets are 0-based;  *)
(* the helpers At and Slice keep the source's offsets.  A Go run-time      *)
(* panic (index or slice bounds out of range) is the outcome "panic".      *)
(* Strings are the byte sequences they hold.                               *)
(***************************************************************************)
EXTENDS Integers, Sequences, FiniteSets, TLC

VARIABLES
    s,        \* the receiver record of Decode (sql in DetectMySQL)
    buf,      \* the byte slice handed to Decode, as Decode leaves it
    arg,      \* the contents of that slice when Decode was called
    ret,      \* outcome of the last Decode: none, ok, an error, or panic
    trace,    \* what the last Decode did: pktLen, ext, authLen, hi, pos
    fresh,    \* whether the receiver was the zero record when Decode was called
    pc,       \* position of DetectMySQL: idle, read, decode, done
    conn,     \* the TCP connection: none, open, closed
    nread,    \* number of conn.Read calls issued
    n,        \* number of bytes the read returned
    result,   \* DetectMySQL's first return value: Nil, or <<the record>>
    err       \* DetectMySQL's second return value: "nil", connect, read, decode
              \* ("panic" when DetectMySQL did not return but panicked)

vars == <<s, buf, arg, ret, trace, fresh, pc, conn, nread, n, result, err>>

----------------------------------------------------------------------------
(* Constants of the program *)

clientPluginAuth == 524288

clientSecureConnection == 32768

ErrorMissingData == "ErrorMissingData"

ErrorInvalidProtocol == "ErrorInvalidProtocol"

\* make([]byte, 1024)
BufSize == 1024

\* a nil *MySQLv10; a non-nil one is the one-element sequence <<record>>
Nil == <<>>

\* MySQLv10{}: the zero value of the record
ZeroRecord ==
    [ServerVersion |-> <<>>, ConnectionId |-> 0, CharacterSet |-> 0,
     Status |-> 0, Capabilities |-> 0, AuthPlugin |-> <<>>, AuthData |-> <<>>]

----------------------------------------------------------------------------
(* Go's slices and integer helpers *)

\* buf[i]
At(b, i) == b[i + 1]

\* buf[lo:hi]
Slice(b, lo, hi) == SubSeq(b, lo + 1, hi)

\* Every slice of the program has cap = len: DetectMySQL's make([]byte, 1024).
Cap(b) == Len(b)

\* bytes.IndexByte(b, c): offset of the first c in b, or -1
IndexByte(b, c) ==
    LET found == {i \in 1..Len(b) : b[i] = c}
    IN  IF found = {} THEN -1
        ELSE (CHOOSE i \in found : \A j \in found : i <= j) - 1

\* read_cstr: the bytes before the first zero byte, or all of them
read_cstr(b) ==
    LET pos == IndexByte(b, 0)
    IN  IF pos = -1 THEN b ELSE Slice(b, 0, pos)

\* binary.LittleEndian.Uint16 of a 2-byte slice
Uint16(b) == b[1] + 256 * b[2]

\* a decoder that reads the connection id in network byte order
Uint32BigEndian(b) == b[4] + 256 * b[3] + 65536 * b[2] + 16777216 * b[1]

\* binary.LittleEndian.Uint32 of a 4-byte slice
Uint32(b) == b[1] + 256 * b[2] + 65536 * b[3] + 16777216 * b[4]

RECURSIVE BitAnd(_, _)
\* x & y
BitAnd(x, y) ==
    IF x = 0 \/ y = 0 THEN 0
    ELSE (x % 2) * (y % 2) + 2 * BitAnd(x \div 2, y \div 2)

RECURSIVE BitOr(_, _)
\* x | y
BitOr(x, y) ==
    IF x = 0 THEN y
    ELSE IF y = 0 THEN x
    ELSE (IF x % 2 = 1 \/ y % 2 = 1 THEN 1 ELSE 0) + 2 * BitOr(x \div 2, y \div 2)

Max(a, b) == IF a > b THEN a ELSE b

----------------------------------------------------------------------------
(* MySQLv10.Decode, statement by statement.  A decoding state d holds the   *)
(* receiver d.s, the slice d.buf, the local variables pos, pktLen, authData *)
(* and authLen, and d.ret: "run" while Decode is executing.  d.hi is the    *)
(* end offset of the furthest byte read so far, d.ext whether the extended  *)
(* fields' branch was entered.                                              *)

Start(rec, b) ==
    [ret |-> "run", s |-> rec, buf |-> b, pos |-> 0, pktLen |-> 0,
     authData |-> <<>>, authPos |-> 0, authLen |-> -1, ext |-> FALSE, hi |-> 0]

\* run the next statement unless Decode has returned or panicked
Then(d, F(_)) == IF d.ret = "run" THEN F(d) ELSE d

Panic(d) == [d EXCEPT !.ret = "panic"]

Read(d, end) == Max(d.hi, end)

\* if len(buf) < 4 { return ErrorMissingData }
CheckHeader(d) ==
    IF Len(d.buf) < 4 THEN [d EXCEPT !.ret = ErrorMissingData] ELSE d

\* pktLen := int(uint32(buf[0]) | uint32(buf[1])<<8 | uint32(buf[2])<<16)
ReadPktLen(d) ==
    [d EXCEPT !.pktLen = BitOr(BitOr(At(d.buf, 0), At(d.buf, 1) * 256),
                               At(d.buf, 2) * 65536),
              !.hi = Read(d, 3)]

\* a length check that forgets the 4 header bytes
PacketTooLongNoHeader(pktLen, len) == pktLen > len

\* the condition of: if pktLen+4 > len(buf) { return ErrorMissingData }
PacketTooLong(pktLen, len) == pktLen + 4 > len

CheckPktLen(d) ==
    IF PacketTooLong(d.pktLen, Len(d.buf))
    THEN [d EXCEPT !.ret = ErrorMissingData]
    ELSE [d EXCEPT !.pos = 4]

\* a version check that looks at the sequence byte, one offset too early
CheckProtocolAtSeq(d) ==
    IF d.pos >= Len(d.buf) THEN Panic(d)
    ELSE IF 10 # At(d.buf, d.pos - 1)
         THEN [d EXCEPT !.ret = ErrorInvalidProtocol, !.hi = Read(d, d.pos + 1)]
         ELSE [d EXCEPT !.pos = d.pos + 1, !.hi = Read(d, d.pos + 1)]

\* if 10 != buf[pos] { return ErrorInvalidProtocol }; pos += 1
CheckProtocol(d) ==
    IF d.pos >= Len(d.buf) THEN Panic(d)
    ELSE IF 10 # At(d.buf, d.pos)
         THEN [d EXCEPT !.ret = ErrorInvalidProtocol, !.hi = Read(d, d.pos + 1)]
         ELSE [d EXCEPT !.pos = d.pos + 1, !.hi = Read(d, d.pos + 1)]

\* how far read_cstr(buf[pos:]) scans: past the terminator, or to the end
CstrEnd(b, pos) ==
    LET i == IndexByte(Slice(b, pos, Len(b)), 0)
    IN  IF i = -1 THEN Len(b) ELSE pos + i + 1

\* s.ServerVersion = read_cstr(buf[pos:]); pos += len(s.ServerVersion) + 1
ReadServerVersion(d) ==
    IF d.pos > Len(d.buf) THEN Panic(d)
    ELSE LET v == read_cstr(Slice(d.buf, d.pos, Len(d.buf)))
         IN  [d EXCEPT !.s.ServerVersion = v,
                       !.pos = d.pos + Len(v) + 1,
                       !.hi = Read(d, CstrEnd(d.buf, d.pos))]

\* s.ConnectionId = binary.LittleEndian.Uint32(buf[pos : pos+4]); pos += 4
ReadConnectionId(d) ==
    IF d.pos + 4 > Cap(d.buf) THEN Panic(d)
    ELSE [d EXCEPT !.s.ConnectionId = Uint32(Slice(d.buf, d.pos, d.pos + 4)),
                   !.pos = d.pos + 4,
                   !.hi = Read(d, d.pos + 4)]

\* authData := buf[pos : pos+8]; pos += 8 + 1
ReadAuthData1(d) ==
    IF d.pos + 8 > Cap(d.buf) THEN Panic(d)
    ELSE [d EXCEPT !.authData = Slice(d.buf, d.pos, d.pos + 8),
                   !.authPos = d.pos,
                   !.pos = d.pos + 8 + 1,
                   !.hi = Read(d, d.pos + 8)]

\* s.Capabilities = uint32(binary.LittleEndian.Uint16(buf[pos : pos+2])); pos += 2
ReadCapabilities1(d) ==
    IF d.pos + 2 > Cap(d.buf) THEN Panic(d)
    ELSE [d EXCEPT !.s.Capabilities = Uint16(Slice(d.buf, d.pos, d.pos + 2)),
                   !.pos = d.pos + 2,
                   !.hi = Read(d, d.pos + 2)]

\* if pos < pktLen+4
HasExtended(d) == d.pos < d.pktLen + 4

\* s.CharacterSet = buf[pos]; pos += 1
ReadCharacterSet(d) ==
    IF d.pos >= Len(d.buf) THEN Panic(d)
    ELSE [d EXCEPT !.s.CharacterSet = At(d.buf, d.pos),
                   !.pos = d.pos + 1,
                   !.hi = Read(d, d.pos + 1)]

\* s.Status = binary.LittleEndian.Uint16(buf[pos : pos+2]); pos += 2
ReadStatus(d) ==
    IF d.pos + 2 > Cap(d.buf) THEN Panic(d)
    ELSE [d EXCEPT !.s.Status = Uint16(Slice(d.buf, d.pos, d.pos + 2)),
                   !.pos = d.pos + 2,
                   !.hi = Read(d, d.pos + 2)]

\* s.Capabilities |= uint32(binary.LittleEndian.Uint16(buf[pos:pos+2])) << 16; pos += 2
ReadCapabilities2(d) ==
    IF d.pos + 2 > Cap(d.buf) THEN Panic(d)
    ELSE [d EXCEPT !.s.Capabilities =
                       BitOr(d.s.Capabilities,
                             Uint16(Slice(d.buf, d.pos, d.pos + 2)) * 65536),
                   !.pos = d.pos + 2,
                   !.hi = Read(d, d.pos + 2)]

\* authLen := -1; if s.Capabilities&clientPluginAuth != 0 { authLen = int(buf[pos]) }
\* pos += 1 + 10
ReadAuthLen(d) ==
    IF BitAnd(d.s.Capabilities, clientPluginAuth) # 0
    THEN IF d.pos >= Len(d.buf) THEN Panic(d)
         ELSE [d EXCEPT !.authLen = At(d.buf, d.pos),
                        !.pos = d.pos + 1 + 10,
                        !.hi = Read(d, d.pos + 1)]
    ELSE [d EXCEPT !.authLen = -1, !.pos = d.pos + 1 + 10]

\* a length that keeps the trailing null byte
AuthDataLenWithNull(authLen) == Max(13, authLen - 8)

\* authDataLen := 13; if authLen-8 > authDataLen { authDataLen = authLen - 8 }
\* authDataLen -= 1
AuthDataLen(authLen) == Max(13, authLen - 8) - 1

\* append(dst, src...) where dst is the slice b[at : at+len(dst)] of b: Go
\* writes src into b's array after dst when the capacity suffices, and b is
\* left untouched when append has to allocate.
AppendInPlace(b, at, dstLen, src) ==
    IF at + dstLen + Len(src) <= Cap(b)
    THEN [i \in 1..Len(b) |->
             IF i > at + dstLen /\ i <= at + dstLen + Len(src)
             THEN src[i - at - dstLen] ELSE b[i]]
    ELSE b

\* if s.Capabilities&clientSecureConnection != 0 {
\*     authData = append(authData, buf[pos:pos+authDataLen]...)
\*     pos += authDataLen + 1 }
ReadAuthData2(d) ==
    IF BitAnd(d.s.Capabilities, clientSecureConnection) # 0
    THEN LET authDataLen == AuthDataLen(d.authLen)
         IN  IF d.pos > d.pos + authDataLen \/ d.pos + authDataLen > Cap(d.buf)
             THEN Panic(d)
             ELSE LET src == Slice(d.buf, d.pos, d.pos + authDataLen)
                  IN  [d EXCEPT !.authData = d.authData \o src,
                                !.buf = AppendInPlace(d.buf, d.authPos,
                                                      Len(d.authData), src),
                                !.pos = d.pos + authDataLen + 1,
                                !.hi = Read(d, d.pos + authDataLen)]
    ELSE d

\* if s.Capabilities&clientPluginAuth != 0 { s.AuthPlugin = read_cstr(buf[pos:]) }
ReadAuthPlugin(d) ==
    IF BitAnd(d.s.Capabilities, clientPluginAuth) # 0
    THEN IF d.pos > Len(d.buf) THEN Panic(d)
         ELSE [d EXCEPT !.s.AuthPlugin = read_cstr(Slice(d.buf, d.pos, Len(d.buf))),
                        !.hi = Read(d, CstrEnd(d.buf, d.pos))]
    ELSE d

\* the body of: if pos < pktLen+4 { ... }
ReadExtended(d) ==
    IF HasExtended(d)
    THEN Then(Then(Then(Then(Then(ReadCharacterSet([d EXCEPT !.ext = TRUE]),
                                  ReadStatus),
                   ReadCapabilities2), ReadAuthLen), ReadAuthData2), ReadAuthPlugin)
    ELSE d

\* s.AuthData = make([]byte, len(authData)); copy(s.AuthData, authData); return nil
Finish(d) == [d EXCEPT !.s.AuthData = d.authData, !.ret = "ok"]

\* func (s *MySQLv10) Decode(buf []byte) error
Decode(rec, b) ==
    Then(Then(Then(Then(Then(Then(Then(Then(Then(
        CheckHeader(Start(rec, b)),
        ReadPktLen), CheckPktLen), CheckProtocol), ReadServerVersion),
        ReadConnectionId), ReadAuthData1), ReadCapabilities1), ReadExtended),
        Finish)

----------------------------------------------------------------------------
(* The inputs: handshake packets laid out as the comments of Decode and the *)
(* MySQL connection-phase documentation describe them, and malformed        *)
(* buffers derived from them.                                               *)

Min(a, b) == IF a < b THEN a ELSE b

Zeros(k) == [i \in 1..k |-> 0]

\* k bytes base+1, base+2, ...
Ramp(base, k) == [i \in 1..k |-> base + i]

Bytes16(x) == <<x % 256, (x \div 256) % 256>>

Bytes24(x) == <<x % 256, (x \div 256) % 256, (x \div 65536) % 256>>

Bytes32(x) == <<x % 256, (x \div 256) % 256, (x \div 65536) % 256,
                (x \div 16777216) % 256>>

HasPluginAuth(caps) == (caps \div clientPluginAuth) % 2 = 1

HasSecureConnection(caps) == (caps \div clientSecureConnection) % 2 = 1

\* The payload of a handshake with extended fields: protocol version,
\* server version, connection id, auth-plugin-data part 1, filler, lower
\* capabilities, character set, status, upper capabilities, auth-data length
\* byte, 10 reserved bytes, [part 2 and its null], [plugin name and its null].
Payload(r, lenByte) ==
    <<10>> \o r.ServerVersion \o <<0>> \o Bytes32(r.ConnectionId)
    \o SubSeq(r.AuthData, 1, 8) \o <<0>>
    \o Bytes16(r.Capabilities % 65536)
    \o <<r.CharacterSet>> \o Bytes16(r.Status)
    \o Bytes16(r.Capabilities \div 65536)
    \o <<lenByte>> \o Zeros(10)
    \o (IF HasSecureConnection(r.Capabilities)
        THEN SubSeq(r.AuthData, 9, Len(r.AuthData)) \o <<0>> ELSE <<>>)
    \o (IF HasPluginAuth(r.Capabilities) THEN r.AuthPlugin \o <<0>> ELSE <<>>)

\* a packet: 3-byte little-endian payload length, sequence number, payload
Frame(declared, payload) == Bytes24(declared) \o <<0>> \o payload

Encode(r, lenByte) == Frame(Len(Payload(r, lenByte)), Payload(r, lenByte))

\* The fields that do not steer the layout, in a few combinations.
Profiles ==
    { [ver |-> <<>>, id |-> 0, cs |-> 0, st |-> 0, caps |-> 0],
      [ver |-> <<56, 46, 48>>, id |-> 67305985, cs |-> 33, st |-> 2,
       caps |-> 65537],
      [ver |-> <<53>>, id |-> 256, cs |-> 255, st |-> 258, caps |-> 16777728] }

PluginNames == { <<>>, <<109, 110>> }

\* the auth-data length bytes put on the wire
LenBytes == {0, 21, 22}

\* A handshake: the record a server means, and the length byte it sends.
Handshakes ==
    { h \in [prof : Profiles, plugin : BOOLEAN, secure : BOOLEAN,
             name : PluginNames, lenByte : LenBytes] :
        /\ (~h.plugin => h.name = <<>>)
        /\ (~h.secure => h.lenByte = 0)
        /\ (h.secure /\ ~h.plugin => h.lenByte \in {0, 22}) }

RecordOf(h) ==
    [ServerVersion |-> h.prof.ver,
     ConnectionId  |-> h.prof.id,
     CharacterSet  |-> h.prof.cs,
     Status        |-> h.prof.st,
     Capabilities  |-> h.prof.caps
                       + (IF h.plugin THEN clientPluginAuth ELSE 0)
                       + (IF h.secure THEN clientSecureConnection ELSE 0),
     AuthPlugin    |-> h.name,
     AuthData      |-> Ramp(10, 8) \o
                       (IF h.secure
                        THEN Ramp(20, Max(13, (IF h.plugin THEN h.lenByte ELSE -1) - 8) - 1)
                        ELSE <<>>)]

PacketOf(h) == Encode(RecordOf(h), h.lenByte)

Packets == { PacketOf(h) : h \in Handshakes }

\* every proper prefix of a packet: the packet cut at byte k
Prefixes(p) == { SubSeq(p, 1, k) : k \in 0..(Len(p) - 1) }

\* the handshake's payload cut at byte k, framed with the length k
Reframed(h) ==
    LET pl == Payload(RecordOf(h), h.lenByte)
    IN  { Frame(k, SubSeq(pl, 1, k)) : k \in 0..(Len(pl) - 1) }

\* the whole payload behind a header that declares fewer bytes than follow
Underdeclared(h) ==
    LET pl == Payload(RecordOf(h), h.lenByte)
    IN  { Frame(k, pl) : k \in 0..(Len(pl) - 1) }

\* offset in the payload where the extended fields begin
ExtendedAt(r) == 1 + Len(r.ServerVersion) + 1 + 4 + 8 + 1 + 2

\* a protocol-10 handshake without extended fields: it ends after the lower
\* capability bytes
OldPacketOf(h) ==
    LET pl == Payload(RecordOf(h), h.lenByte)
        k  == ExtendedAt(RecordOf(h))
    IN  Frame(k, SubSeq(pl, 1, k))

OldPackets == { OldPacketOf(h) : h \in Handshakes }

RawBytes == {0, 1, 10}

MaxRaw == 5

\* every buffer of at most MaxRaw bytes over RawBytes
Raw == UNION { [1..k -> RawBytes] : k \in 0..MaxRaw }

Buffers ==
    Packets \cup Raw
    \cup UNION { Prefixes(p) : p \in Packets }
    \cup UNION { Reframed(h) : h \in Handshakes }
    \cup UNION { Underdeclared(h) : h \in Handshakes }

\* buffers decoded into a record that an earlier Decode has used
NextBuffers ==
    Packets \cup OldPackets
    \cup { <<>>, <<1, 0, 0, 0, 1>>, <<9, 0, 0, 0, 10>>, <<1, 0, 0, 0, 10>> }

\* a server that never terminates its version string: 1019 bytes of 'A'
LongVersion == Frame(BufSize - 4, <<10>> \o [i \in 1..(BufSize - 5) |-> 65])

\* what a server may send on connect
Messages == Packets \cup OldPackets \cup { LongVersion, <<74, 0, 0, 0, 9>> }

----------------------------------------------------------------------------
(* The state machine *)

Errors == { ErrorMissingData, ErrorInvalidProtocol }

NoTrace == [pktLen |-> 0, ext |-> FALSE, authLen |-> -1, hi |-> 0, pos |-> 0]

Init ==
    /\ s = ZeroRecord
    /\ buf = <<>>
    /\ arg = <<>>
    /\ ret = "none"
    /\ trace = NoTrace
    /\ fresh = TRUE
    /\ pc = "idle"
    /\ conn = "none"
    /\ nread = 0
    /\ n = 0
    /\ result = Nil
    /\ err = "nil"

\* rec.Decode(b): the receiver, the slice and the outcome after the call
Call(rec, b) ==
    LET d == Decode(rec, b)
    IN  /\ s' = d.s
        /\ buf' = d.buf
        /\ arg' = b
        /\ fresh' = (rec = ZeroRecord)
        /\ ret' = d.ret
        /\ trace' = [pktLen |-> d.pktLen, ext |-> d.ext, authLen |-> d.authLen,
                     hi |-> d.hi, pos |-> d.pos]

\* sql := MySQLv10{}; sql.Decode(b)
DecodeFresh ==
    /\ pc = "idle"
    /\ ret = "none"
    /\ \E b \in Buffers : Call(ZeroRecord, b)
    /\ UNCHANGED <<pc, conn, nread, n, result, err>>

\* sql.Decode(b) on a record that has decoded a complete handshake before
DecodeAgain ==
    /\ pc = "idle"
    /\ ret = "ok"
    /\ arg \in Packets \cup OldPackets
    /\ \E b \in NextBuffers : Call(s, b)
    /\ UNCHANGED <<pc, conn, nread, n, result, err>>

\* sql.Decode(buf) once more, on the slice the last successful call was given
DecodeSame ==
    /\ pc = "idle"
    /\ ret = "ok"
    /\ Call(s, buf)
    /\ UNCHANGED <<pc, conn, nread, n, result, err>>

\* a DetectMySQL without the deferred Close
LeaveOpen(c) == c

\* defer conn.Close(): the connection when DetectMySQL is left
Leave(c) == "closed"

\* conn, err := net.DialTimeout(...); on error return; defer conn.Close();
\* buf := make([]byte, 1024)
Dial ==
    /\ pc = "idle"
    /\ ret = "none"
    /\ \E ok \in BOOLEAN :
         IF ok
         THEN /\ conn' = "open"
              /\ buf' = Zeros(BufSize)
              /\ pc' = "read"
              /\ UNCHANGED <<result, err>>
         ELSE /\ result' = Nil
              /\ err' = "connect"
              /\ pc' = "done"
              /\ UNCHANGED <<conn, buf>>
    /\ UNCHANGED <<s, arg, ret, trace, fresh, nread, n>>

\* conn.Read(buf) returns the first k bytes of what the server sent
ReadOk ==
    /\ pc = "read"
    /\ nread' = nread + 1
    /\ \E msg \in Messages : \E k \in 0..Min(Len(msg), Len(buf)) :
         /\ n' = k
         /\ buf' = [i \in 1..Len(buf) |-> IF i <= k THEN msg[i] ELSE buf[i]]
    /\ pc' = "decode"
    /\ UNCHANGED <<s, arg, ret, trace, fresh, conn, result, err>>

\* conn.Read(buf) fails: return nil, error; the deferred Close runs
ReadFail ==
    /\ pc = "read"
    /\ nread' = nread + 1
    /\ result' = Nil
    /\ err' = "read"
    /\ conn' = Leave(conn)
    /\ pc' = "done"
    /\ UNCHANGED <<s, buf, arg, ret, trace, fresh, n>>

\* the slice DetectMySQL hands to Decode: sql.Decode(buf)
Handed(b, k) == b

\* a DetectMySQL that returns &sql whatever Decode returned
ReturnedAlways(r, rec) == <<rec>>

\* DetectMySQL's first return value: &sql after a Decode without error, nil
\* after an error (and nothing when Decode panicked)
Returned(r, rec) == IF r = "ok" THEN <<rec>> ELSE Nil

\* sql := MySQLv10{}; err = sql.Decode(buf); return; the deferred Close runs
DecodeRead ==
    /\ pc = "decode"
    /\ Call(ZeroRecord, Handed(buf, n))
    /\ result' = Returned(ret', s')
    /\ err' = IF ret' = "ok" THEN "nil"
              ELSE IF ret' = "panic" THEN "panic" ELSE "decode"
    /\ conn' = Leave(conn)
    /\ pc' = "done"
    /\ UNCHANGED <<nread, n>>

Next ==
    \/ DecodeFresh
    \/ DecodeAgain
    \/ DecodeSame
    \/ Dial
    \/ ReadOk
    \/ ReadFail
    \/ DecodeRead

Spec == Init /\ [][Next]_vars

----------------------------------------------------------------------------
(* Helpers of the properties, computed from the buffer Decode was given *)

Called == ret # "none"

\* the 3-byte little-endian length a buffer declares
DeclaredLen(b) == b[1] + 256 * b[2] + 65536 * b[3]

IsProperPrefix(a, p) == Len(a) < Len(p) /\ a = SubSeq(p, 1, Len(a))

\* offset of the first extended field in a buffer whose version string is v
ExtendedOffset(v) == 4 + 1 + Len(v) + 1 + 4 + 8 + 1 + 2

----------------------------------------------------------------------------
(* The claims *)

\* C1: Decode ends with a populated record, ErrorMissingData or
\* ErrorInvalidProtocol on every buffer; it never panics and never reads at an
\* offset beyond the buffer.
C1_ThreeOutcomes ==
    Called => /\ ret \in {"ok", ErrorMissingData, ErrorInvalidProtocol}
              /\ trace.hi <= Len(arg)

\* C2: Decode of any proper prefix of a well-formed handshake packet returns
\* ErrorMissingData and reads nothing beyond the prefix.
C2_PrefixIsMissingData ==
    \A p \in Packets :
        (Called /\ IsProperPrefix(arg, p)) =>
            (ret = ErrorMissingData /\ trace.hi <= Len(arg))

\* C2 happens: a packet cut one byte short of its end was refused.
C2_Witness ==
    /\ ret = ErrorMissingData
    /\ \E p \in Packets : IsProperPrefix(arg, p) /\ Len(arg) = Len(p) - 1

\* C3 as stated: every buffer whose byte at offset 4 is not 10 fails with
\* ErrorInvalidProtocol.
C3_Original ==
    (Called /\ Len(arg) >= 5 /\ At(arg, 4) # 10) => ret = ErrorInvalidProtocol

\* C3 amended: every buffer of at least 5 bytes that holds the packet it
\* declares (declared length + 4 <= its length) and whose byte at offset 4 is
\* not 10 fails with ErrorInvalidProtocol.
C3_Amended ==
    (Called /\ Len(arg) >= 5 /\ DeclaredLen(arg) + 4 <= Len(arg)
            /\ At(arg, 4) # 10) => ret = ErrorInvalidProtocol

\* C3 happens: a complete packet of another protocol version was refused.
C3_Witness ==
    /\ ret = ErrorInvalidProtocol
    /\ Len(arg) >= 5
    /\ At(arg, 4) # 10
    /\ DeclaredLen(arg) + 4 = Len(arg)

\* C4: after a successful Decode, AuthData has 8 bytes when the extended
\* fields are absent or the secure-connection bit is unset, and otherwise
\* 8 + max(13, d-8) - 1 bytes, d being the declared auth-data length when the
\* plugin-auth bit is set and -1 when it is not.
C4_AuthDataLength ==
    ret = "ok" =>
        LET at  == ExtendedOffset(s.ServerVersion)
            ext == at < DeclaredLen(arg) + 4
            dd  == IF HasPluginAuth(s.Capabilities) THEN At(arg, at + 5) ELSE -1
        IN  Len(s.AuthData) =
                IF ~ext \/ ~HasSecureConnection(s.Capabilities)
                THEN 8
                ELSE 8 + Max(13, dd - 8) - 1

\* C4 happens: plugin-auth and secure-connection set, declared length 22,
\* and 21 bytes of auth data decoded.
C4_Witness ==
    /\ ret = "ok"
    /\ HasPluginAuth(s.Capabilities)
    /\ HasSecureConnection(s.Capabilities)
    /\ ExtendedOffset(s.ServerVersion) < DeclaredLen(arg) + 4
    /\ At(arg, ExtendedOffset(s.ServerVersion) + 5) = 22
    /\ Len(s.AuthData) = 21

\* C5: encoding a record as a handshake packet and decoding the packet into a
\* fresh record succeeds and gives the record back, field by field.
C5_RoundTrip ==
    \A h \in Handshakes :
        (Called /\ fresh /\ arg = PacketOf(h)) =>
            (ret = "ok" /\ s = RecordOf(h))

\* C5 happens: a handshake with a plugin name, both capability bits and a
\* declared length of 22 was decoded into a fresh record.
C5_Witness ==
    /\ ret = "ok"
    /\ fresh
    /\ \E h \in Handshakes :
          /\ h.plugin /\ h.secure /\ h.lenByte = 22 /\ h.name # <<>>
          /\ h.prof.id > 255
          /\ arg = PacketOf(h)
          /\ s = RecordOf(h)

\* C6: when the one read of DetectMySQL returned n bytes, the buffer handed
\* to Decode holds exactly those n bytes, so a handshake of which only a part
\* arrived is not decoded as a detection.
C6_HandsBytesRead ==
    (pc = "done" /\ Called /\ n > 0) =>
        /\ Len(arg) = n
        /\ (n >= 4 /\ DeclaredLen(arg) + 4 > n => ret # "ok")

\* C7: once connected, the connection is closed when DetectMySQL is left, on
\* every path; at most one read is issued; after a failed connect nothing is
\* read and nothing decoded.
C7_ClosedOneRead ==
    /\ (pc = "done" /\ err # "connect") => conn = "closed"
    /\ nread <= 1
    /\ (pc = "done" /\ err = "connect") =>
           (conn = "none" /\ nread = 0 /\ ~Called)
    /\ (pc = "done" /\ err = "read") => ~Called

\* C7 happens: connected, read once, Decode failed, connection closed.
C7_Witness ==
    pc = "done" /\ err = "decode" /\ nread = 1 /\ conn = "closed"

\* C8: a Decode that returns an error leaves the receiver as it was, and
\* DetectMySQL returns a record only together with a nil error.
C8_NoPartialResult ==
    /\ [][ret' \in Errors => s' = s]_vars
    /\ [](err # "nil" => result = Nil)

\* C8 happens: a record filled by an earlier Decode went through a failing
\* Decode.
C8_Witness ==
    /\ ret \in Errors
    /\ ~fresh
    /\ s # ZeroRecord

\* C9: the outcome of Decode and, on success, every field of the record
\* depend on the buffer alone, whatever the receiver held before.
C9_Deterministic ==
    Called =>
        LET d == Decode(ZeroRecord, arg)
        IN  ret = d.ret /\ (ret = "ok" => s = d.s)

\* C10: Decode consumes no byte at or beyond the declared end of the packet
\* (offset declared length + 4), and reports ErrorMissingData instead when
\* the declared body is too short for the fields the layout requires.
C10_WithinDeclaredLength ==
    (Called /\ Len(arg) >= 4 /\ DeclaredLen(arg) + 4 <= Len(arg)) =>
        /\ trace.hi <= DeclaredLen(arg) + 4
        /\ ret \in {"ok", ErrorMissingData, ErrorInvalidProtocol}

====
